---- MODULE Spec2Model ----
(***************************************************************************)
(* A model of src/borg/testsuite/__init__.py: the mount-state synchronizer *)
(* (fuse_mount, wait_for_mountstate), the memoized capability probes and   *)
(* the directory comparator (assert_dirs_equal), the xattr filter          *)
(* no_selinux and the scope environment_variable.                          *)
(*                                                                         *)
(* Time is counted in milliseconds.  The clock (time.time()) advances only *)
(* inside time.sleep(d), by exactly d; every other statement takes no time.*)
(***************************************************************************)
EXTENDS Integers, Sequences, FiniteSets, TLC

VARIABLES
    scenario,   \* which operation of the module the run exercises
    \* ---- mount synchronizer
    args,       \* the arguments of the top-level call
    now,        \* time.time(), in ms
    ismount,    \* what os.path.ismount(mountpoint) answers right now
    dirExists,  \* whether the mountpoint directory exists
    pc,         \* per process: position in fuse_mount / wait_for_mountstate
    wait,       \* per process: the frame of its wait_for_mountstate call
    polls,      \* per process: oracle queries made, by requested state
    err,        \* per process: the exception that left the call, if any
    log,        \* per process: the steps of fuse_mount it has executed
    \* ---- capability probes
    platform,   \* what the Python build exposes: os.link, stat_result.st_birthtime
    cache,      \* per probe: the result functools.lru_cache holds
    ncalls,     \* per probe: calls made so far
    first,      \* per probe: how its first call ended
    last,       \* the calls made by the latest top-level probe call
    \* ---- directory comparator
    opts,       \* ignore_flags, ignore_xattrs, ignore_ns of assert_dirs_equal
    consts,     \* the module constants have_fuse_mtime_ns, st_mtime_ns_round
    left,       \* the tree dir1: its device and its entries by path
    right,      \* the tree dir2
    stack,      \* the active _assert_dirs_equal_cmp calls, innermost last
    result,     \* "idle", "running", "passed" or "AssertionError"
    failure,    \* the assertion that failed, and where
    trace,      \* directories visited and entries stat'ed, in order
    vectors,    \* d1 and d2 of the latest entry comparison
    \* ---- no_selinux
    call,       \* the argument of the latest no_selinux call and what it returned
    \* ---- environment_variable
    environ,    \* os.environ: per name its value, or Absent
    scopes,     \* the environment_variable objects entered and not yet left
    exited      \* the latest __exit__: the environment around the scope

mountVars == <<args, now, ismount, dirExists, pc, wait, polls, err, log>>
probeVars == <<platform, cache, ncalls, first, last>>
cmpVars == <<opts, consts, left, right, stack, result, failure, trace, vectors>>

fnVars == <<call>>
envVars == <<environ, scopes, exited>>

vars == <<scenario, mountVars, probeVars, cmpVars, fnVars, envVars>>

\* the variables the mount synchronizer leaves alone
notMount == <<scenario, probeVars, cmpVars, fnVars, envVars>>
\* the variables the probes leave alone
notProbe == <<scenario, mountVars, cmpVars, fnVars, envVars>>
\* the variables the comparator leaves alone
notCmp == <<scenario, mountVars, probeVars, fnVars, envVars>>
\* the variables no_selinux leaves alone
notFn == <<scenario, mountVars, probeVars, cmpVars, envVars>>
\* the variables environment_variable leaves alone
notEnv == <<scenario, mountVars, probeVars, cmpVars, fnVars>>

Probes == {"are_symlinks_supported", "are_hardlinks_supported", "are_fifos_supported",
           "is_utime_fully_supported", "is_birthtime_fully_supported"}

\* no probe has been called
ProbesIdle ==
    /\ platform = [has_link |-> TRUE, has_birthtime |-> TRUE]
    /\ cache = [q \in Probes |-> "unset"]
    /\ ncalls = [q \in Probes |-> 0]
    /\ first = [q \in Probes |-> "none"]
    /\ last = <<>>

\* Python's None in an attribute vector (no stat field is negative)
None == 0 - 1

NoTree == [dev |-> 0, files |-> <<>>]
NoFailure == [what |-> "none", path |-> <<>>, name |-> 0]
NoVectors == [name |-> 0, path |-> <<>>, d1 |-> <<>>, d2 |-> <<>>]

\* assert_dirs_equal has not been called
CmpIdle ==
    /\ opts = [ignore_flags |-> FALSE, ignore_xattrs |-> FALSE, ignore_ns |-> FALSE]
    /\ consts = [have_fuse_mtime_ns |-> TRUE, st_mtime_ns_round |-> 0]
    /\ left = NoTree
    /\ right = NoTree
    /\ stack = <<>>
    /\ result = "idle"
    /\ failure = NoFailure
    /\ trace = <<>>
    /\ vectors = NoVectors

\* a variable that is not in os.environ
Absent == "absent"
\* the names of the environment variables of the model
EnvNames == {"A", "B"}

\* a Python dict (its items, in insertion order) and a Python list
Dict(items) == [type |-> "dict", items |-> items]
List(items) == [type |-> "list", items |-> items]
\* Python's None as a collection
NoCollection == [type |-> "NoneType", items |-> <<>>]

NoCall == [fn |-> "none", x |-> NoCollection, arg |-> NoCollection, ret |-> NoCollection]
NoExit == [raised |-> FALSE, names |-> {}, before |-> <<>>, atExit |-> <<>>, after |-> <<>>]

\* no_selinux has not been called, no environment_variable scope entered
AuxIdle ==
    /\ call = NoCall
    /\ environ = [n \in EnvNames |-> Absent]
    /\ scopes = <<>>
    /\ exited = NoExit

(***************************************************************************)
(* Mount-state synchronizer                                                *)
(***************************************************************************)

\* time.sleep(0.1) of wait_for_mountstate, in ms
PollInterval == 100
\* the default timeout=5 of wait_for_mountstate, in ms
DefaultTimeout == 5000
\* time.sleep(0.2) at the end of fuse_mount, in ms
DaemonExitPause == 200

\* timeouts of a direct wait_for_mountstate call: 0 .. MaxDirectTimeout half
\* polling intervals
MaxDirectTimeout == 5
DirectTimeouts ==
    {(k * PollInterval) \div 2 : k \in 0..MaxDirectTimeout} \cup {DefaultTimeout}

Procs == {"caller", "child", "grandchild"}

\* the exit_code keyword of fuse_mount; "absent" when the caller passes none
ExitCodeArgs == {"absent", "EXIT_SUCCESS", "EXIT_WARNING", "EXIT_ERROR"}

\* kwargs.get("exit_code", EXIT_SUCCESS)
KwargsExitCode == IF args.exit_code = "absent" THEN "EXIT_SUCCESS" ELSE args.exit_code

\* the frame of a wait_for_mountstate call, and what is recorded of the
\* call: `seen`, a poll found the requested state; `quiet`, the path was in
\* the requested state on entry and has not changed since
NoWait == [active |-> FALSE, mounted |-> FALSE, timeout |-> 0, entry |-> 0,
           deadline |-> 0, ret |-> "none", seen |-> FALSE, nsleeps |-> 0,
           endedAt |-> -1, quiet |-> FALSE]

WaitPcs == {"w_check", "w_poll", "w_sleep"}

\* no fuse_mount or wait_for_mountstate call is in progress
MountIdle ==
    /\ args = [op |-> "none", fork |-> TRUE, os_fork |-> FALSE, exit_code |-> "absent",
               mounted |-> TRUE, timeout |-> 0]
    /\ now = 0
    /\ ismount = FALSE
    /\ dirExists = FALSE
    /\ pc = [p \in Procs |-> "unborn"]
    /\ wait = [p \in Procs |-> NoWait]
    /\ polls = [p \in Procs |-> [mount |-> 0, umount |-> 0]]
    /\ err = [p \in Procs |-> "none"]
    /\ log = [p \in Procs |-> <<>>]

FuseMountArgs ==
    [op : {"fuse_mount"}, fork : BOOLEAN, os_fork : BOOLEAN,
     exit_code : ExitCodeArgs, mounted : {TRUE}, timeout : {DefaultTimeout}]

WaitArgs ==
    [op : {"wait_for_mountstate"}, fork : {TRUE}, os_fork : {FALSE},
     exit_code : {"absent"}, mounted : BOOLEAN, timeout : DirectTimeouts]

InitMount ==
    /\ scenario = "mount"
    /\ args \in FuseMountArgs
    /\ now = 0
    /\ ismount = FALSE
    /\ dirExists = FALSE
    /\ pc = [p \in Procs |-> IF p = "caller" THEN "start" ELSE "unborn"]
    /\ wait = [p \in Procs |-> NoWait]
    /\ polls = [p \in Procs |-> [mount |-> 0, umount |-> 0]]
    /\ err = [p \in Procs |-> "none"]
    /\ log = [p \in Procs |-> <<>>]
    /\ ProbesIdle
    /\ CmpIdle
    /\ AuxIdle

Goto(p, where) == pc' = [pc EXCEPT ![p] = where]
Logged(p, what) == log' = [log EXCEPT ![p] = Append(@, what)]

\* line 299: timeout += time.time()
EnterWait(p, mounted, timeout, ret) ==
    /\ wait' = [wait EXCEPT ![p] =
                   [active |-> TRUE, mounted |-> mounted, timeout |-> timeout,
                    entry |-> now, deadline |-> timeout + now, ret |-> ret,
                    seen |-> FALSE, nsleeps |-> 0, endedAt |-> -1,
                    quiet |-> (ismount = mounted)]]
    /\ Goto(p, "w_check")

\* the loop test of line 300 with the comparison turned around
LoopGuard_inverted(p) == wait[p].deadline < now

\* line 300: while timeout > time.time()
LoopGuard(p) == wait[p].deadline > now

\* line 301 with the test left out
StateReached_always(p) == wait[p].active

\* the test of line 301 with != for ==
StateReached_negated(p) == ismount # wait[p].mounted

\* line 301: os.path.ismount(mountpoint) == mounted
StateReached(p) == ismount = wait[p].mounted

\* lines 304-305
TimeoutMessage(mounted) ==
    IF mounted THEN "TimeoutError: Waiting for mount" ELSE "TimeoutError: Waiting for umount"

\* line 300, the loop test; lines 304-305 when it fails
WCheck(p) ==
    /\ pc[p] = "w_check"
    /\ IF LoopGuard(p)
       THEN /\ Goto(p, "w_poll")
            /\ UNCHANGED <<wait, err>>
       ELSE /\ Goto(p, "raised")
            /\ err' = [err EXCEPT ![p] = TimeoutMessage(wait[p].mounted)]
            /\ wait' = [wait EXCEPT ![p].active = FALSE, ![p].endedAt = now]
    /\ UNCHANGED <<notMount, args, now, ismount, dirExists, polls, log>>

\* lines 301-302: one query of the oracle; return when it reports the state
WPoll(p) ==
    /\ pc[p] = "w_poll"
    /\ polls' = [polls EXCEPT ![p] =
                    IF wait[p].mounted THEN [@ EXCEPT !.mount = @ + 1]
                                       ELSE [@ EXCEPT !.umount = @ + 1]]
    /\ IF StateReached(p)
       THEN /\ Goto(p, wait[p].ret)
            /\ wait' = [wait EXCEPT ![p].active = FALSE, ![p].endedAt = now,
                                    ![p].seen = (ismount = wait[p].mounted)]
            /\ Logged(p, IF ismount THEN "ismount=True" ELSE "ismount=False")
       ELSE /\ Goto(p, "w_sleep")
            /\ wait' = [wait EXCEPT ![p].seen = @ \/ (ismount = wait[p].mounted)]
            /\ UNCHANGED log
    /\ UNCHANGED <<notMount, args, now, ismount, dirExists, err>>

\* line 303: time.sleep(0.1)
WSleep(p) ==
    /\ pc[p] = "w_sleep"
    /\ now' = now + PollInterval
    /\ wait' = [wait EXCEPT ![p].nsleeps = @ + 1]
    /\ Goto(p, "w_check")
    /\ UNCHANGED <<notMount, args, ismount, dirExists, polls, err, log>>

WaitStep(p) == WCheck(p) \/ WPoll(p) \/ WSleep(p)

\* a direct call wait_for_mountstate(mountpoint, mounted=.., timeout=..)
DirectWaitCall ==
    /\ args.op = "wait_for_mountstate"
    /\ pc["caller"] = "start"
    /\ EnterWait("caller", args.mounted, args.timeout, "done")
    /\ UNCHANGED <<notMount, args, now, ismount, dirExists, polls, err, log>>

\* the mount daemon and the kernel change the mount state on their own
OracleChange ==
    /\ scenario \in {"mount", "wait"}
    /\ ismount' = ~ismount
    /\ wait' = [p \in Procs |-> [wait[p] EXCEPT !.quiet = FALSE]]
    /\ UNCHANGED <<notMount, args, now, dirExists, pc, polls, err, log>>

(***************************************************************************)
(* fuse_mount, one action per statement.  Every process executes the same  *)
(* code: after os.fork() the new process continues where its parent was.   *)
(***************************************************************************)

\* os.fork() by p creates this process
Forked(p) == IF p = "caller" THEN "child" ELSE "grandchild"

\* lines 256-261: create the mountpoint directory, build args, test os_fork
Mkdir(p) ==
    /\ args.op = "fuse_mount"
    /\ pc[p] = "start"
    /\ dirExists' = TRUE
    /\ Logged(p, "mkdir")
    /\ Goto(p, IF args.os_fork THEN "fork1" ELSE "cmd")
    /\ UNCHANGED <<notMount, args, now, ismount, wait, polls, err>>

\* the parent yielding without the wait of line 289
AfterFork1InParent_nowait == "yield"

\* line 263, in the parent: os.fork() == 0 is false, the whole branch is
\* skipped and control reaches line 289
AfterFork1InParent == "wait_mount"

\* line 263: if os.fork() == 0
Fork1(p) ==
    /\ pc[p] = "fork1"
    /\ pc[Forked(p)] = "unborn"
    /\ pc' = [pc EXCEPT ![p] = AfterFork1InParent, ![Forked(p)] = "setsid"]
    /\ log' = [log EXCEPT ![p] = Append(@, "fork")]
    /\ UNCHANGED <<notMount, args, now, ismount, dirExists, wait, polls, err>>

\* lines 267-269, the intermediate process: os.setsid(); os.fork() > 0, so
\* os._exit(0).  The process its fork creates starts at the try block.
IntermediateRuns(p) ==
    /\ pc[p] = "setsid"
    /\ pc[Forked(p)] = "unborn"
    /\ pc' = [pc EXCEPT ![p] = "exited", ![Forked(p)] = "try"]
    /\ log' = [log EXCEPT ![p] = @ \o <<"setsid", "fork", "_exit">>]
    /\ UNCHANGED <<notMount, args, now, ismount, dirExists, wait, polls, err>>

\* the finally clause without line 278: control goes on to line 289
AfterFinally_goeson == "wait_mount"

\* line 278: os._exit(0) ends the process
AfterFinally == "exited"

\* lines 271-278, the final descendant: self.cmd(*args, fork=False,
\* **kwargs).  borg mount daemonizes and the process ends inside cmd(); if
\* it does not, cmd() returns or raises and the finally clause prints and
\* calls os._exit(0).
FinalDescendantRuns(p) ==
    /\ pc[p] = "try"
    /\ \E outcome \in {"daemonized", "returned", "raised"} :
          IF outcome = "daemonized"
          THEN /\ log' = [log EXCEPT ![p] = @ \o <<"cmd(fork=False)">>]
               /\ Goto(p, "exited")
          ELSE /\ log' = [log EXCEPT ![p] =
                             @ \o <<"cmd(fork=False)", outcome, "print_fatal", "_exit">>]
               /\ Goto(p, AfterFinally)
    /\ UNCHANGED <<notMount, args, now, ismount, dirExists, wait, polls, err>>

\* line 281: if kwargs.get("exit_code", EXIT_SUCCESS) == EXIT_ERROR
AfterCmd == IF KwargsExitCode = "EXIT_ERROR" THEN "yield_err" ELSE "wait_mount"

\* line 280: self.cmd(*args, fork=fork, **kwargs); it returns, or its
\* exception leaves fuse_mount
Cmd(p) ==
    /\ pc[p] = "cmd"
    /\ Logged(p, "cmd")
    /\ \E raises \in BOOLEAN :
          IF raises
          THEN Goto(p, "raised") /\ err' = [err EXCEPT ![p] = "cmd"]
          ELSE Goto(p, AfterCmd) /\ UNCHANGED err
    /\ UNCHANGED <<notMount, args, now, ismount, dirExists, wait, polls>>

\* line 287: yield, on the expected-failure path
YieldErr(p) ==
    /\ pc[p] = "yield_err"
    /\ Logged(p, "yield")
    /\ Goto(p, "body_err")
    /\ UNCHANGED <<notMount, args, now, ismount, dirExists, wait, polls, err>>

\* the scope body after line 287; line 288 (return) when it completes
BodyErr(p) ==
    /\ pc[p] = "body_err"
    /\ \E raises \in BOOLEAN :
          IF raises
          THEN /\ Goto(p, "raised")
               /\ err' = [err EXCEPT ![p] = "body"]
               /\ Logged(p, "body_raise")
          ELSE /\ Goto(p, "done")
               /\ UNCHANGED err
               /\ Logged(p, "body_ok")
    /\ UNCHANGED <<notMount, args, now, ismount, dirExists, wait, polls>>

\* line 289: self.wait_for_mountstate(mountpoint, mounted=True)
WaitMountCall(p) ==
    /\ pc[p] = "wait_mount"
    /\ EnterWait(p, TRUE, DefaultTimeout, "yield")
    /\ UNCHANGED <<notMount, args, now, ismount, dirExists, polls, err, log>>

\* line 290: yield
Yield(p) ==
    /\ pc[p] = "yield"
    /\ Logged(p, "yield")
    /\ Goto(p, "body")
    /\ UNCHANGED <<notMount, args, now, ismount, dirExists, wait, polls, err>>

\* lines 290-291 as if the yield stood in a try with the release in its
\* finally clause
AfterBodyRaised_released == "umount"

\* line 290: an exception of the body is thrown into the generator at the
\* yield; no try encloses the yield, so it leaves fuse_mount
AfterBodyRaised == "raised"

\* the scope body after line 290: it completes, or its exception is thrown
\* into the generator at the yield and leaves fuse_mount
Body(p) ==
    /\ pc[p] = "body"
    /\ \E raises \in BOOLEAN :
          IF raises
          THEN /\ Goto(p, AfterBodyRaised)
               /\ err' = [err EXCEPT ![p] = "body"]
               /\ Logged(p, "body_raise")
          ELSE /\ Goto(p, "umount")
               /\ UNCHANGED err
               /\ Logged(p, "body_ok")
    /\ UNCHANGED <<notMount, args, now, ismount, dirExists, wait, polls>>

\* line 292 left out: rmdir directly after umount
AfterUmount_nowait == "rmdir"

\* lines 291-292: what follows umount(mountpoint)
AfterUmount == "wait_umount"

\* line 291: umount(mountpoint)
Umount(p) ==
    /\ pc[p] = "umount"
    /\ Logged(p, "umount")
    /\ Goto(p, AfterUmount)
    /\ UNCHANGED <<notMount, args, now, ismount, dirExists, wait, polls, err>>

\* line 292: self.wait_for_mountstate(mountpoint, mounted=False)
WaitUmountCall(p) ==
    /\ pc[p] = "wait_umount"
    /\ EnterWait(p, FALSE, DefaultTimeout, "rmdir")
    /\ UNCHANGED <<notMount, args, now, ismount, dirExists, polls, err, log>>

\* line 293: os.rmdir(mountpoint)
Rmdir(p) ==
    /\ pc[p] = "rmdir"
    /\ dirExists' = FALSE
    /\ Logged(p, "rmdir")
    /\ Goto(p, "pause")
    /\ UNCHANGED <<notMount, args, now, ismount, wait, polls, err>>

\* line 295: time.sleep(0.2)
Pause(p) ==
    /\ pc[p] = "pause"
    /\ now' = now + DaemonExitPause
    /\ Logged(p, "sleep(0.2)")
    /\ Goto(p, "done")
    /\ UNCHANGED <<notMount, args, ismount, dirExists, wait, polls, err>>

NextMount ==
    \/ OracleChange
    \/ \E p \in Procs :
          \/ WCheck(p) \/ WPoll(p) \/ WSleep(p)
          \/ Mkdir(p) \/ Fork1(p) \/ IntermediateRuns(p) \/ FinalDescendantRuns(p)
          \/ Cmd(p) \/ YieldErr(p) \/ BodyErr(p)
          \/ WaitMountCall(p) \/ Yield(p) \/ Body(p) \/ Umount(p)
          \/ WaitUmountCall(p) \/ Rmdir(p) \/ Pause(p)

SpecMount == InitMount /\ [][NextMount]_vars

(***************************************************************************)
(* wait_for_mountstate called on its own, with any timeout                 *)
(***************************************************************************)

InitWait ==
    /\ scenario = "wait"
    /\ args \in WaitArgs
    /\ now = 0
    /\ ismount \in BOOLEAN
    /\ dirExists = TRUE
    /\ pc = [p \in Procs |-> IF p = "caller" THEN "start" ELSE "unborn"]
    /\ wait = [p \in Procs |-> NoWait]
    /\ polls = [p \in Procs |-> [mount |-> 0, umount |-> 0]]
    /\ err = [p \in Procs |-> "none"]
    /\ log = [p \in Procs |-> <<>>]
    /\ ProbesIdle
    /\ CmpIdle
    /\ AuxIdle

NextWait ==
    \/ DirectWaitCall
    \/ OracleChange
    \/ WCheck("caller")
    \/ WPoll("caller")
    \/ WSleep("caller")

\* a running process keeps executing: the loop of wait_for_mountstate is
\* never suspended for ever
SpecWait == InitWait /\ [][NextWait]_vars /\ WF_vars(WaitStep("caller"))

(***************************************************************************)
(* Properties of the mount-state synchronizer                              *)
(***************************************************************************)

Has(l, e) == \E i \in 1..Len(l) : l[i] = e
IsTimeout(p) == err[p] \in {TimeoutMessage(TRUE), TimeoutMessage(FALSE)}
Waited(p) == wait[p].endedAt - wait[p].entry

\* what holds of every finished wait_for_mountstate call: it raised at or
\* after the deadline and at most one polling interval later, having seen
\* no poll report the requested state; or it returned after such a poll
WaitOutcome ==
    \A p \in Procs :
       /\ IsTimeout(p) =>
             /\ err[p] = TimeoutMessage(wait[p].mounted)
             /\ Waited(p) >= wait[p].timeout
             /\ Waited(p) <= wait[p].timeout + PollInterval
             /\ ~wait[p].seen
       /\ (pc[p] = "done" /\ scenario = "wait") => wait[p].seen

\* C1: a wait_for_mountstate call whose polls never report the requested
\* state raises TimeoutError no earlier than `timeout` after entry and no
\* later than `timeout` plus one polling interval, and every call ends.
C1_MountWaitBound ==
    /\ []WaitOutcome
    /\ \A p \in Procs : (pc[p] \in WaitPcs) ~> (pc[p] \notin WaitPcs)

\* a call with a timeout that is no multiple of the polling interval has
\* raised, after the deadline
C1_Witness ==
    /\ scenario = "wait"
    /\ IsTimeout("caller")
    /\ Waited("caller") > wait["caller"].timeout
    /\ wait["caller"].timeout > 0

DefaultMode ==
    args.op = "fuse_mount" /\ ~args.os_fork /\ KwargsExitCode # "EXIT_ERROR"

\* in l, every "yield" directly follows a poll that reported mounted, and
\* that poll follows the event `started`
YieldsAfterMount(l, started) ==
    \A k \in 1..Len(l) :
       l[k] = "yield" =>
          /\ k >= 3
          /\ l[k - 1] = "ismount=True"
          /\ \E i \in 1..(k - 2) : l[i] = started

\* C2: in default mode the scope body is entered only after the mount
\* invocation was started and a poll reported the mountpoint mounted; when
\* that wait times out the TimeoutError leaves fuse_mount, the body never
\* runs and no umount is issued.
C2_BodyAfterConfirmedMount ==
    DefaultMode =>
       /\ YieldsAfterMount(log["caller"], "cmd")
       /\ Has(log["caller"], "yield") => polls["caller"].mount >= 1
       /\ err["caller"] = TimeoutMessage(TRUE) =>
             /\ pc["caller"] = "raised"
             /\ ~Has(log["caller"], "yield")
             /\ ~Has(log["caller"], "body_ok")
             /\ ~Has(log["caller"], "umount")
             /\ polls["caller"].umount = 0

\* default mode, the body has been entered
C2_Witness == DefaultMode /\ pc["caller"] = "body"

\* the steps of p after its scope body completed (empty before that)
AfterBody(l) ==
    IF Has(l, "body_ok")
    THEN LET k == CHOOSE i \in 1..Len(l) : l[i] = "body_ok"
         IN SubSeq(l, k + 1, Len(l))
    ELSE <<>>

ReleaseSteps == <<"umount", "ismount=False", "rmdir", "sleep(0.2)">>

IsPrefix(a, b) == Len(a) <= Len(b) /\ a = SubSeq(b, 1, Len(a))

\* the body of p ran after a confirmed mount and completed
ReleasedNormally(p) ==
    Has(log[p], "ismount=True") /\ Has(log[p], "body_ok")

\* C3: after the scope body completes normally following a confirmed mount,
\* fuse_mount issues umount, waits until a poll reports unmounted, removes
\* the mountpoint directory and pauses 200 ms, in this order; the directory
\* is never removed before unmounted status was observed, and not at all
\* when the unmount wait times out.
C3_ReleaseSequence ==
    \A p \in Procs :
       /\ ReleasedNormally(p) =>
             /\ IsPrefix(AfterBody(log[p]), ReleaseSteps)
             /\ pc[p] = "done" =>
                   /\ AfterBody(log[p]) = ReleaseSteps
                   /\ now = wait[p].endedAt + DaemonExitPause
                   /\ polls[p].umount >= 1
       /\ \A k \in 1..Len(log[p]) :
             log[p][k] = "rmdir" =>
                k >= 3 /\ log[p][k - 1] = "ismount=False" /\ log[p][k - 2] = "umount"
       /\ err[p] = TimeoutMessage(FALSE) =>
             /\ ~Has(log[p], "rmdir")
             /\ dirExists
             /\ Waited(p) >= DefaultTimeout
       /\ (~dirExists /\ Has(log["caller"], "mkdir")) => Has(log["caller"], "rmdir")

\* the whole release sequence has run
C3_Witness ==
    /\ pc["caller"] = "done"
    /\ ReleasedNormally("caller")
    /\ ~dirExists
    /\ polls["caller"].umount > 1

\* C4: with exit_code == EXIT_ERROR, for every fork and os_fork, fuse_mount
\* never polls the oracle for mounted status, yields directly after the
\* invocation and issues no umount and no unmount wait.
C4_ErrorExitNeverWaits ==
    (args.op = "fuse_mount" /\ KwargsExitCode = "EXIT_ERROR") =>
       \A p \in Procs :
          /\ polls[p].mount = 0
          /\ polls[p].umount = 0
          /\ ~wait[p].active
          /\ ~Has(log[p], "umount")

\* C5 as stated: in os_fork mode the caller's process never polls the
\* oracle for mounted status and never raises the mount TimeoutError.
C5_OsForkCallerNeverWaits ==
    (args.op = "fuse_mount" /\ args.os_fork) =>
       /\ polls["caller"].mount = 0
       /\ err["caller"] # TimeoutMessage(TRUE)

\* C5 as amended: in os_fork mode only the two forked processes never poll
\* the oracle and never raise; the caller's process waits for mount
\* confirmation as in default mode: it enters the scope body only after a
\* poll reported mounted, and a mount TimeoutError it raises comes no
\* earlier than 5 s after the wait began.
C5_OsForkCallerWaits ==
    (args.op = "fuse_mount" /\ args.os_fork) =>
       /\ \A p \in {"child", "grandchild"} :
             /\ polls[p] = [mount |-> 0, umount |-> 0]
             /\ err[p] = "none"
             /\ ~Has(log[p], "yield")
       /\ YieldsAfterMount(log["caller"], "fork")
       /\ Has(log["caller"], "yield") => polls["caller"].mount >= 1
       /\ err["caller"] = TimeoutMessage(TRUE) =>
             /\ Waited("caller") >= DefaultTimeout
             /\ ~Has(log["caller"], "yield")

\* os_fork mode: the caller has polled, entered the body, and the final
\* descendant has ended
C5_Witness ==
    /\ args.os_fork
    /\ pc["caller"] = "body"
    /\ polls["caller"].mount > 1
    /\ pc["grandchild"] = "exited"

\* the steps of fuse_mount from the yield on
ScopeSteps == {"yield", "body_ok", "body_raise", "umount", "ismount=False", "rmdir",
               "sleep(0.2)"}

HasAny(l, S) == \E i \in 1..Len(l) : l[i] \in S

\* what the final descendant can have executed
FinalDescendantLogs ==
    {<<>>, <<"cmd(fork=False)">>,
     <<"cmd(fork=False)", "returned", "print_fatal", "_exit">>,
     <<"cmd(fork=False)", "raised", "print_fatal", "_exit">>}

\* C17: in os_fork mode only the caller's process reaches the scope body and
\* the unmount and rmdir steps; the intermediate process calls setsid, forks
\* once and exits without running the mount invocation; the final
\* descendant runs the invocation with fork=False and exits, whether the
\* invocation returns or raises; without os_fork no process is forked.
C17_ProcessRoles ==
    /\ args.op = "fuse_mount" =>
          /\ \A p \in {"child", "grandchild"} :
                /\ ~HasAny(log[p], ScopeSteps)
                /\ pc[p] \in {"unborn", "setsid", "try", "exited"}
                /\ polls[p] = [mount |-> 0, umount |-> 0]
          /\ IsPrefix(log["child"], <<"setsid", "fork", "_exit">>)
          /\ pc["child"] = "exited" <=> log["child"] = <<"setsid", "fork", "_exit">>
          /\ log["grandchild"] \in FinalDescendantLogs
          /\ HasAny(log["grandchild"], {"returned", "raised"}) => pc["grandchild"] = "exited"
          /\ pc["grandchild"] # "unborn" => pc["child"] = "exited"
          /\ Cardinality({p \in Procs : HasAny(log[p], ScopeSteps)}) <= 1
    /\ (args.op = "fuse_mount" /\ ~args.os_fork) =>
          pc["child"] = "unborn" /\ pc["grandchild"] = "unborn"

\* the invocation raised in the final descendant, which exited; the caller
\* has run the body and released the mount
C17_Witness ==
    /\ args.os_fork
    /\ pc["child"] = "exited"
    /\ log["grandchild"] = <<"cmd(fork=False)", "raised", "print_fatal", "_exit">>
    /\ pc["grandchild"] = "exited"
    /\ pc["caller"] = "done"
    /\ Has(log["caller"], "rmdir")

\* the body of p raised after a poll had reported the mountpoint mounted
RaisedInScope(p) == err[p] = "body" /\ Has(log[p], "ismount=True")

\* C18: when the scope body raises after a confirmed mount, the error leaves
\* fuse_mount: no umount is issued, the oracle is not polled for unmounted
\* status, the mountpoint directory stays, and the step in which the error
\* propagates leaves the mount state as it is.
C18_NoReleaseOnError ==
    /\ [](\A p \in Procs :
            RaisedInScope(p) =>
               /\ pc[p] = "raised"
               /\ log[p][Len(log[p])] = "body_raise"
               /\ ~Has(log[p], "umount")
               /\ ~Has(log[p], "rmdir")
               /\ polls[p].umount = 0
               /\ dirExists)
    /\ [][\A p \in Procs :
             (pc[p] = "body" /\ pc'[p] # "body") =>
                (ismount' = ismount /\ dirExists' = dirExists)]_vars

\* the body raised after a confirmed mount; the path is still mounted
C18_Witness ==
    /\ RaisedInScope("caller")
    /\ polls["caller"].mount > 1
    /\ ismount
    /\ dirExists

\* the call of p has ended
Ended(p) == ~wait[p].active /\ wait[p].endedAt >= 0

\* what the oracle answers when the path is in the requested state
Requested(mounted) == IF mounted THEN "ismount=True" ELSE "ismount=False"

\* C19: a wait_for_mountstate call returns only directly after a poll in
\* which the oracle reported the requested state; it never raises
\* TimeoutError when one of its polls found the requested state; and when
\* the path is in the requested state on entry and stays so, with
\* timeout > 0, it returns after one query and no sleep.
C19_NoFalseTimeout ==
    scenario = "wait" =>
       /\ pc["caller"] = "done" =>
             /\ wait["caller"].seen
             /\ log["caller"] # <<>>
             /\ log["caller"][Len(log["caller"])] = Requested(wait["caller"].mounted)
       /\ IsTimeout("caller") => ~wait["caller"].seen
       /\ (Ended("caller") /\ wait["caller"].quiet /\ wait["caller"].timeout > 0) =>
             /\ pc["caller"] = "done"
             /\ polls["caller"].mount + polls["caller"].umount = 1
             /\ wait["caller"].nsleeps = 0
             /\ wait["caller"].endedAt = wait["caller"].entry

\* unmounted on entry of a wait for unmounted status with the default
\* timeout: returned after one query
C19_Witness ==
    /\ scenario = "wait"
    /\ pc["caller"] = "done"
    /\ wait["caller"].quiet
    /\ ~wait["caller"].mounted
    /\ wait["caller"].timeout = DefaultTimeout
    /\ polls["caller"] = [mount |-> 0, umount |-> 1]
    /\ now = 0

(***************************************************************************)
(* Capability probes.  A probe call is one action: the lru_cache lookup    *)
(* and, on a miss, the whole function body.  The operating system decides  *)
(* how each filesystem operation ends.  The scratch directory itself       *)
(* (tempfile.TemporaryDirectory) is taken to be creatable and removable.   *)
(***************************************************************************)

\* calls made in one run, nested ones included
MaxCalls == 3

Run(outcome, ops, failed) == [outcome |-> outcome, ops |-> ops, failed |-> failed]

\* os.stat results, as far as the probes read them
NoStat == [err |-> TRUE, nlink |-> 0, ino |-> 0]
LinkStats == [err : {FALSE}, nlink : {1, 2}, ino : {10, 11}] \cup {NoStat}
NoTimes == [err |-> TRUE, atime |-> 0, mtime |-> 0, birthtime |-> 0]

\* lines 69-77
SymlinksRun(symlink, stat, readlink) ==
    IF symlink = "OSError"
    THEN Run("False", <<"mkdtemp", "symlink", "rmtree">>, "symlink")
    ELSE IF stat = "OSError"
    THEN Run("False", <<"mkdtemp", "symlink", "stat", "rmtree">>, "stat")
    ELSE IF readlink = "OSError"
    THEN Run("False", <<"mkdtemp", "symlink", "stat", "readlink", "rmtree">>, "readlink")
    ELSE Run(IF readlink = "somewhere" THEN "True" ELSE "False",
             <<"mkdtemp", "symlink", "stat", "readlink", "rmtree">>, "none")

SymlinksRuns ==
    {SymlinksRun(a, b, c) : a \in {"ok", "OSError"}, b \in {"ok", "OSError"},
                            c \in {"somewhere", "elsewhere", "OSError"}}

\* lines 86-96; line 87 (open) is outside the try
HardlinksRun(open, link, stat1, stat2) ==
    IF open = "OSError"
    THEN Run("OSError", <<"mkdtemp", "mkdtemp", "open", "rmtree", "rmtree">>, "open")
    ELSE IF link = "OSError"
    THEN Run("False", <<"mkdtemp", "mkdtemp", "open", "link", "rmtree", "rmtree">>, "link")
    ELSE IF stat1.err
    THEN Run("False", <<"mkdtemp", "mkdtemp", "open", "link", "stat", "rmtree", "rmtree">>,
             "stat")
    ELSE IF stat2.err
    THEN Run("False",
             <<"mkdtemp", "mkdtemp", "open", "link", "stat", "stat", "rmtree", "rmtree">>,
             "stat")
    ELSE Run(IF stat1.nlink = 2 /\ stat2.nlink = 2 /\ stat1.ino = stat2.ino
             THEN "True" ELSE "False",
             <<"mkdtemp", "mkdtemp", "open", "link", "stat", "stat", "rmtree", "rmtree">>,
             "none")

\* lines 82-96
HardlinksRuns ==
    IF ~platform.has_link
    THEN {Run("False", <<>>, "none")}
    ELSE {HardlinksRun(a, b, c, d) : a \in {"ok", "OSError"}, b \in {"ok", "OSError"},
                                     c \in LinkStats, d \in LinkStats}

\* lines 101-111
FifosRun(mkfifo) ==
    IF mkfifo = "ok"
    THEN Run("True", <<"mkdtemp", "mkfifo", "rmtree">>, "none")
    ELSE Run("False", <<"mkdtemp", "mkfifo", "rmtree">>,
             IF mkfifo = "OSError" THEN "mkfifo" ELSE "none")

FifosRuns ==
    {FifosRun(a) : a \in {"ok", "OSError", "NotImplementedError", "AttributeError"}}

\* lines 118-121: the scratch entry, a symlink if are_symlinks_supported()
ScratchOp(symlinks) == IF symlinks = "True" THEN "symlink" ELSE "open"

\* lines 116-131; lines 119 and 121 are outside the try
UtimeRun(symlinks, create, utime, stat) ==
    LET mk == ScratchOp(symlinks) IN
    IF create = "OSError"
    THEN Run("OSError", <<"mkdtemp", mk, "rmtree">>, mk)
    ELSE IF utime # "ok"
    THEN Run("False", <<"mkdtemp", mk, "utime", "rmtree">>,
             IF utime = "OSError" THEN "utime" ELSE "none")
    ELSE IF stat.err
    THEN Run("False", <<"mkdtemp", mk, "utime", "stat", "rmtree">>, "stat")
    ELSE Run(IF stat.atime = 1000 /\ stat.mtime = 2000 THEN "True" ELSE "False",
             <<"mkdtemp", mk, "utime", "stat", "rmtree">>, "none")

UtimeStats ==
    [err : {FALSE}, atime : {1000, 1001}, mtime : {2000, 1999}, birthtime : {0}]
       \cup {NoTimes}

UtimeRuns(symlinks) ==
    {UtimeRun(symlinks, a, b, c) : a \in {"ok", "OSError"},
                                   b \in {"ok", "OSError", "NotImplementedError"},
                                   c \in UtimeStats}

\* line 145
BirthtimeSet == 946598400
MtimeSet == 946684800
AtimeSet == 946771200
\* when the scratch entry was created: later than the three times above
ScratchCreated == AtimeSet + 86400

\* what a filesystem does with its birth-time field on the two utime calls
\* of lines 146-147
BirthtimeKinds == {"tracks", "mirrors_mtime", "keeps_creation"}

\* st_birthtime after utime(.., mtime=BirthtimeSet) then utime(.., mtime=MtimeSet)
BirthtimeRead(kind) ==
    CASE kind = "tracks" -> BirthtimeSet    \* moved back by the first call only
      [] kind = "mirrors_mtime" -> MtimeSet
      [] kind = "keeps_creation" -> ScratchCreated

BirthtimeStats ==
    {[err |-> FALSE, atime |-> a, mtime |-> m, birthtime |-> BirthtimeRead(k)] :
        a \in {AtimeSet, ScratchCreated}, m \in {MtimeSet, ScratchCreated},
        k \in BirthtimeKinds} \cup {NoTimes}

\* line 149 without its test of st_birthtime
BirthtimeMatches_mtimeonly(stat) ==
    stat.mtime = MtimeSet /\ stat.atime = AtimeSet

\* line 149: the condition on new_stats
BirthtimeMatches(stat) ==
    stat.birthtime = BirthtimeSet /\ stat.mtime = MtimeSet /\ stat.atime = AtimeSet

\* a run of a probe that got as far as line 148, and what os.stat reported
Read(run, stat) ==
    [outcome |-> run.outcome, ops |-> run.ops, failed |-> run.failed, read |-> stat]

\* lines 138-155; lines 141 and 143 are outside the try
BirthtimeRun(symlinks, create, utime1, utime2, stat) ==
    LET mk == ScratchOp(symlinks) IN
    IF create = "OSError"
    THEN Run("OSError", <<"mkdtemp", mk, "rmtree">>, mk)
    ELSE IF utime1 # "ok"
    THEN Run("False", <<"mkdtemp", mk, "utime", "rmtree">>,
             IF utime1 = "OSError" THEN "utime" ELSE "none")
    ELSE IF utime2 # "ok"
    THEN Run("False", <<"mkdtemp", mk, "utime", "utime", "rmtree">>,
             IF utime2 = "OSError" THEN "utime" ELSE "none")
    ELSE IF stat.err
    THEN Run("False", <<"mkdtemp", mk, "utime", "utime", "stat", "rmtree">>, "stat")
    ELSE Read(Run(IF BirthtimeMatches(stat) THEN "True" ELSE "False",
                  <<"mkdtemp", mk, "utime", "utime", "stat", "rmtree">>, "none"), stat)

BirthtimeRuns(symlinks) ==
    {BirthtimeRun(symlinks, a, b, c, d) :
        a \in {"ok", "OSError"}, b \in {"ok", "OSError", "NotImplementedError"},
        c \in {"ok", "OSError", "NotImplementedError"}, d \in BirthtimeStats}

Sym == "are_symlinks_supported"

\* functools.lru_cache around a function without arguments: the stored
\* result, or else what the function body does
LruCache(q, body) ==
    IF cache[q] # "unset" THEN {Run(cache[q], <<>>, "none")} ELSE body

Call(q, run) ==
    [probe |-> q, index |-> ncalls[q] + 1, outcome |-> run.outcome, ops |-> run.ops,
     failed |-> run.failed,
     read |-> IF "read" \in DOMAIN run THEN run.read ELSE NoTimes]

TotalCalls ==
    ncalls["are_symlinks_supported"] + ncalls["are_hardlinks_supported"]
       + ncalls["are_fifos_supported"] + ncalls["is_utime_fully_supported"]
       + ncalls["is_birthtime_fully_supported"]

\* the calls `made` (a sequence of Call records of distinct probes) have
\* ended: lru_cache stores what a call returned, nothing when it raised
Memoized(made) ==
    LET of(q) == {i \in 1..Len(made) : made[i].probe = q} IN
    /\ cache' = [q \in Probes |->
                    IF \E i \in of(q) : made[i].outcome # "OSError" /\ cache[q] = "unset"
                    THEN made[CHOOSE i \in of(q) : TRUE].outcome
                    ELSE cache[q]]
    /\ ncalls' = [q \in Probes |-> ncalls[q] + Cardinality(of(q))]
    /\ first' = [q \in Probes |->
                    IF of(q) # {} /\ ncalls[q] = 0
                    THEN made[CHOOSE i \in of(q) : TRUE].outcome
                    ELSE first[q]]
    /\ last' = made

Called(made) ==
    /\ Memoized(made)
    /\ UNCHANGED <<notProbe, platform>>

\* are_symlinks_supported()
CallSymlinks ==
    /\ scenario = "probe"
    /\ TotalCalls < MaxCalls
    /\ \E run \in LruCache(Sym, SymlinksRuns) : Called(<<Call(Sym, run)>>)

\* are_hardlinks_supported()
CallHardlinks ==
    /\ scenario = "probe"
    /\ TotalCalls < MaxCalls
    /\ \E run \in LruCache("are_hardlinks_supported", HardlinksRuns) :
          Called(<<Call("are_hardlinks_supported", run)>>)

\* are_fifos_supported()
CallFifos ==
    /\ scenario = "probe"
    /\ TotalCalls < MaxCalls
    /\ \E run \in LruCache("are_fifos_supported", FifosRuns) :
          Called(<<Call("are_fifos_supported", run)>>)

\* is_utime_fully_supported(); on a cache miss its body calls
\* are_symlinks_supported() (line 118)
UtimeCalls ==
    IF cache["is_utime_fully_supported"] # "unset"
    THEN {<<Call("is_utime_fully_supported", run)>> :
             run \in LruCache("is_utime_fully_supported", {})}
    ELSE UNION {{<<Call(Sym, inner), Call("is_utime_fully_supported", run)>> :
                    run \in UtimeRuns(inner.outcome)} :
                  inner \in LruCache(Sym, SymlinksRuns)}

CallUtime ==
    /\ scenario = "probe"
    /\ \E made \in UtimeCalls :
          /\ TotalCalls + Len(made) - 1 < MaxCalls
          /\ Called(made)

\* is_birthtime_fully_supported(); line 136 returns before the scratch
\* directory is made; otherwise the body calls are_symlinks_supported()
\* (line 140)
CallBirthtime ==
    /\ scenario = "probe"
    /\ IF cache["is_birthtime_fully_supported"] # "unset" \/ ~platform.has_birthtime
       THEN /\ TotalCalls < MaxCalls
            /\ \E run \in LruCache("is_birthtime_fully_supported",
                                   {Run("False", <<>>, "none")}) :
                  Called(<<Call("is_birthtime_fully_supported", run)>>)
       ELSE /\ TotalCalls + 1 < MaxCalls
            /\ \E inner \in LruCache(Sym, SymlinksRuns) :
                  \E run \in BirthtimeRuns(inner.outcome) :
                     Called(<<Call(Sym, inner), Call("is_birthtime_fully_supported", run)>>)

InitProbe ==
    /\ scenario = "probe"
    /\ platform \in [has_link : BOOLEAN, has_birthtime : BOOLEAN]
    /\ cache = [q \in Probes |-> "unset"]
    /\ ncalls = [q \in Probes |-> 0]
    /\ first = [q \in Probes |-> "none"]
    /\ last = <<>>
    /\ MountIdle
    /\ CmpIdle
    /\ AuxIdle

NextProbe ==
    \/ CallSymlinks
    \/ CallHardlinks
    \/ CallFifos
    \/ CallUtime
    \/ CallBirthtime

SpecProbe == InitProbe /\ [][NextProbe]_vars

(***************************************************************************)
(* Properties of the capability probes                                     *)
(***************************************************************************)

\* the filesystem operations a probe performs on its scratch entries
ProbeOps == {"open", "symlink", "link", "mkfifo", "utime", "stat", "readlink"}

\* C6: every call of a probe after its first returns what the first call
\* returned and performs no filesystem operation.
C6_ProbeCallsAreCached ==
    \A i \in 1..Len(last) :
       last[i].index > 1 =>
          /\ last[i].outcome = first[last[i].probe]
          /\ last[i].ops = <<>>

\* C7: a probe in which a filesystem operation fails with an OS-level error
\* returns False; no error reaches the caller.
C7_ProbeErrorsAbsorbed ==
    \A i \in 1..Len(last) :
       last[i].failed \in ProbeOps => last[i].outcome = "False"

Birthtime == "is_birthtime_fully_supported"

\* the calls of is_birthtime_fully_supported() among the latest that ran
\* the body of the function
BirthtimeBodies == {i \in 1..Len(last) : last[i].probe = Birthtime /\ last[i].ops # <<>>}

\* both utime calls of lines 146-147 were accepted and os.stat answered
Accepted(c) == c.ops = <<"mkdtemp", c.ops[2], "utime", "utime", "stat", "rmtree">>
                  /\ c.failed = "none"

\* C13: is_birthtime_fully_supported() returns True only when stat exposes
\* st_birthtime and, after the two utime calls, reports the birth time first
\* set, the mtime set second and the atime set; when both calls are accepted
\* but the birth time read mirrors mtime or is still the creation time, it
\* returns False.
C13_BirthtimeDetected ==
    /\ cache[Birthtime] = "True" => platform.has_birthtime
    /\ \A i \in 1..Len(last) :
          (last[i].probe = Birthtime /\ ~platform.has_birthtime) =>
             last[i].outcome = "False" /\ last[i].ops = <<>>
    /\ \A i \in BirthtimeBodies :
          /\ last[i].outcome = "True" =>
                /\ platform.has_birthtime
                /\ Accepted(last[i])
                /\ last[i].read = [err |-> FALSE, atime |-> AtimeSet, mtime |-> MtimeSet,
                                   birthtime |-> BirthtimeSet]
          /\ (Accepted(last[i]) /\ last[i].read.birthtime \in
                  {BirthtimeRead("mirrors_mtime"), BirthtimeRead("keeps_creation")}) =>
                last[i].outcome = "False"

\* an OS that accepted both calls, reports the mtime and atime set and
\* mirrors mtime into the birth time: the probe returned False
C13_Witness ==
    \E i \in BirthtimeBodies :
       /\ Accepted(last[i])
       /\ last[i].read = [err |-> FALSE, atime |-> AtimeSet, mtime |-> MtimeSet,
                          birthtime |-> MtimeSet]
       /\ last[i].outcome = "False"
       /\ cache[Birthtime] = "False"

(***************************************************************************)
(* Directory comparator: the file trees                                    *)
(*                                                                         *)
(* A tree is a device number and a map from paths (sequences of names) to  *)
(* entries; names are numbers, listed in increasing order.  An entry holds *)
(* what os.stat(follow_symlinks=False), get_flags and get_all report for   *)
(* it, for a symlink also what it points to, and for a regular file (or    *)
(* the target of a symlink) its size and content.                          *)
(***************************************************************************)

\* stat.S_IFMT values
S_IFIFO == 4096
S_IFCHR == 8192
S_IFDIR == 16384
S_IFBLK == 24576
S_IFREG == 32768
S_IFLNK == 40960

S_IFMT(mode) == mode - (mode % 4096)
S_ISCHR(mode) == S_IFMT(mode) = S_IFCHR
S_ISBLK(mode) == S_IFMT(mode) = S_IFBLK

SELINUX_KEY == "security.selinux"

\* the modification time of the entries of dir1, in ns: one second
BaseMtime == 1000 * 1000 * 1000

Entry(mode, target, rdev, nlink) ==
    [st_mode |-> mode, target |-> target, st_uid |-> 1000, st_gid |-> 100,
     st_rdev |-> rdev, st_nlink |-> nlink, flags |-> 0, st_mtime_ns |-> BaseMtime,
     xattrs |-> {<<"user.comment", 1>>}, size |-> 1, content |-> 1, readable |-> TRUE]

\* the kinds of entry of the model
Kinds == {"reg", "dir", "lnk_dir", "lnk_reg", "fifo", "chr", "blk"}

EntryOfKind(kind) ==
    CASE kind = "reg" -> Entry(S_IFREG + 420, "self", 0, 1)
      [] kind = "dir" -> Entry(S_IFDIR + 493, "self", 0, 2)
      [] kind = "lnk_dir" -> Entry(S_IFLNK + 511, "dir", 0, 1)
      [] kind = "lnk_reg" -> Entry(S_IFLNK + 511, "reg", 0, 1)
      [] kind = "fifo" -> Entry(S_IFIFO + 420, "self", 0, 1)
      [] kind = "chr" -> Entry(S_IFCHR + 420, "self", 259, 1)
      [] kind = "blk" -> Entry(S_IFBLK + 420, "self", 2049, 1)

\* S_IFMT of os.stat(path), which follows symlinks
FollowedType(e) ==
    IF S_IFMT(e.st_mode) # S_IFLNK THEN S_IFMT(e.st_mode)
    ELSE IF e.target = "dir" THEN S_IFDIR ELSE S_IFREG

\* os.path.isdir(path), which follows symlinks
IsDir(e) == FollowedType(e) = S_IFDIR

\* os.stat(path, follow_symlinks=False)
Stat(tree, path) ==
    LET e == tree.files[path] IN
    [st_mode |-> e.st_mode, st_dev |-> tree.dev, st_uid |-> e.st_uid,
     st_gid |-> e.st_gid, st_rdev |-> e.st_rdev, st_nlink |-> e.st_nlink,
     st_mtime_ns |-> e.st_mtime_ns]

\* a finite set of numbers as an increasing sequence
Sorted(S) ==
    CHOOSE q \in [1..Cardinality(S) -> S] :
       \A i, j \in 1..Cardinality(S) : i < j => q[i] < q[j]

\* os.listdir(path)
Listing(tree, path) ==
    {f[Len(f)] : f \in {g \in DOMAIN tree.files :
                           Len(g) = Len(path) + 1 /\ SubSeq(g, 1, Len(path)) = path}}

(***************************************************************************)
(* filecmp.dircmp(dir1, dir2) of line 187, as the standard library         *)
(* computes its attributes for the directory pair at `path`                *)
(***************************************************************************)

left_only(path) == Sorted(Listing(left, path) \ Listing(right, path))
right_only(path) == Sorted(Listing(right, path) \ Listing(left, path))
common(path) == Sorted(Listing(left, path) \cap Listing(right, path))

\* filecmp._sig: (type, size, mtime) of os.stat; for the times of the model
\* the float st_mtime tells every nanosecond apart
Sig(e) == <<FollowedType(e), e.size, e.st_mtime_ns>>

\* filecmp._cmp with shallow=True: "same", "diff", or "funny" when a file
\* cannot be read
FileCmp(e1, e2) ==
    IF Sig(e1) = Sig(e2) THEN "same"
    ELSE IF e1.size # e2.size THEN "diff"
    ELSE IF ~e1.readable \/ ~e2.readable THEN "funny"
    ELSE IF e1.content = e2.content THEN "same" ELSE "diff"

Both(path, n, type) ==
    /\ FollowedType(left.files[Append(path, n)]) = type
    /\ FollowedType(right.files[Append(path, n)]) = type

common_dirs(path) == SelectSeq(common(path), LAMBDA n : Both(path, n, S_IFDIR))
common_files(path) == SelectSeq(common(path), LAMBDA n : Both(path, n, S_IFREG))

FilesThatCompare(path, how) ==
    SelectSeq(common_files(path),
              LAMBDA n : FileCmp(left.files[Append(path, n)],
                                 right.files[Append(path, n)]) = how)

diff_files(path) == FilesThatCompare(path, "diff")
funny_files(path) == FilesThatCompare(path, "funny")

\* dircmp.subdirs: one dircmp per common directory
subdirs(path) == common_dirs(path)

(***************************************************************************)
(* The attribute vectors of lines 196-233                                  *)
(***************************************************************************)

\* list.insert(i, x) and list[i] = x, with Python's indices from 0
PyInsert(l, i, x) == SubSeq(l, 1, i) \o <<x>> \o SubSeq(l, i + 1, Len(l))
PySet(l, i, x) == [l EXCEPT ![i + 1] = x]

RECURSIVE OctDigits(_)
OctDigits(n) == IF n < 8 THEN <<n>> ELSE Append(OctDigits(n \div 8), n % 8)

\* oct(n): the prefix and the octal digits
oct(n) == <<"0o">> \o OctDigits(n)

RECURSIVE Pow10(_)
Pow10(k) == IF k = 0 THEN 1 ELSE 10 * Pow10(k - 1)

\* round(n, ndigits) for an int n >= 0 and ndigits <= 0: to the nearest
\* multiple of 10^-ndigits, a tie to the even multiple
round(n, ndigits) ==
    LET g == Pow10(0 - ndigits)
        q == n \div g
        r == n % g
    IN  IF 2 * r < g THEN q * g
        ELSE IF 2 * r > g THEN (q + 1) * g
        ELSE IF q % 2 = 0 THEN q * g ELSE (q + 1) * g

\* line 201: Assume path2 is on FUSE if st_dev is different
fuse(s1, s2) == s1.st_dev # s2.st_dev

\* lines 202-205
attrs(s1, s2, e1) ==
    IF ~fuse(s1, s2) \/ ~IsDir(e1)
    THEN <<"st_uid", "st_gid", "st_rdev", "st_nlink">>
    ELSE <<"st_uid", "st_gid", "st_rdev">>

getattr(st, a) ==
    CASE a = "st_uid" -> st.st_uid
      [] a = "st_gid" -> st.st_gid
      [] a = "st_rdev" -> st.st_rdev
      [] a = "st_nlink" -> st.st_nlink

\* lines 206-209: [filename] + [getattr(s, a) for a in attrs], then
\* insert(1, oct(s.st_mode))
NamedAttrs(filename, st, as) ==
    PyInsert(<<filename>> \o [i \in 1..Len(as) |-> getattr(st, as[i])], 1, oct(st.st_mode))

\* lines 210-212
WithFlags(d, e) == IF ~opts.ignore_flags THEN Append(d, e.flags) ELSE d

\* line 215 with the index of st_gid
NullRdev1_gid(d, st) == IF ~S_ISCHR(st.st_mode) /\ ~S_ISBLK(st.st_mode) THEN PySet(d, 3, None) ELSE d

\* lines 214-215 (d1) and 216-217 (d2)
NullRdev1(d, st) == IF ~S_ISCHR(st.st_mode) /\ ~S_ISBLK(st.st_mode) THEN PySet(d, 4, None) ELSE d
NullRdev2(d, st) == IF ~S_ISCHR(st.st_mode) /\ ~S_ISBLK(st.st_mode) THEN PySet(d, 4, None) ELSE d

\* lines 222-230 with the tests of lines 222 and 225 in the other order
Mtime_fusefirst(st, isfuse) ==
    IF isfuse /\ ~consts.have_fuse_mtime_ns THEN round(st.st_mtime_ns, 0 - 4)
    ELSE IF opts.ignore_ns THEN st.st_mtime_ns \div 1000000000
    ELSE round(st.st_mtime_ns, consts.st_mtime_ns_round)

\* lines 220-230: the modification time as compared
Mtime(st, isfuse) ==
    IF opts.ignore_ns THEN st.st_mtime_ns \div 1000000000
    ELSE IF isfuse /\ ~consts.have_fuse_mtime_ns THEN round(st.st_mtime_ns, 0 - 4)
    ELSE round(st.st_mtime_ns, consts.st_mtime_ns_round)

WithMtime(d, st, isfuse, utime) ==
    IF utime = "True" THEN Append(d, Mtime(st, isfuse)) ELSE d

\* line 162: k != SELINUX_KEY for an item (k, v) of x.items()
NotSelinuxItem(kv) == kv[1] # SELINUX_KEY

\* line 164 with the test left out
NotSelinuxKey_any(k) == TRUE

\* line 164: k != SELINUX_KEY
NotSelinuxKey(k) == k # SELINUX_KEY

\* lines 158-164; for an x that is neither a dict nor a list the function
\* ends without a return statement
no_selinux(x) ==
    IF x.type = "dict" THEN Dict(SelectSeq(x.items, NotSelinuxItem))
    ELSE IF x.type = "list" THEN List(SelectSeq(x.items, NotSelinuxKey))
    ELSE NoCollection

RECURSIVE SeqOf(_)
SeqOf(S) == IF S = {} THEN <<>>
            ELSE LET x == CHOOSE y \in S : TRUE IN <<x>> \o SeqOf(S \ {x})

\* get_all(path, follow_symlinks=False): the dict of the xattrs of e
get_all(e) == Dict(SeqOf(e.xattrs))

\* a dict as assert_equal compares it: two dicts are equal when they hold
\* the same items, in whatever order
ItemSet(x) == {x.items[i] : i \in 1..Len(x.items)}

\* lines 231-233
WithXattrs(d, e) ==
    IF ~opts.ignore_xattrs THEN Append(d, ItemSet(no_selinux(get_all(e)))) ELSE d

\* d1 and d2 of one loop iteration, for the entry `filename` of `path`, when
\* is_utime_fully_supported() returns `utime`
EntryVectors(path, filename, utime) ==
    LET p == Append(path, filename)
        e1 == left.files[p]
        e2 == right.files[p]
        s1 == Stat(left, p)
        s2 == Stat(right, p)
        as == attrs(s1, s2, e1)
    IN  [name |-> filename, path |-> path,
         d1 |-> WithXattrs(WithMtime(NullRdev1(WithFlags(NamedAttrs(filename, s1, as), e1),
                                               s1), s1, fuse(s1, s2), utime), e1),
         d2 |-> WithXattrs(WithMtime(NullRdev2(WithFlags(NamedAttrs(filename, s2, as), e2),
                                               s2), s2, fuse(s1, s2), utime), e2)]

(***************************************************************************)
(* assert_dirs_equal and the recursion of _assert_dirs_equal_cmp, with an  *)
(* explicit call stack: a frame is a directory pair (its path) and the     *)
(* position in its two loops                                               *)
(***************************************************************************)

Frame(path) == [path |-> path, phase |-> "asserts", i |-> 1]
Top == stack[Len(stack)]
SetTop(f) == [stack EXCEPT ![Len(stack)] = f]

Fail(what, path, name) ==
    /\ result' = "AssertionError"
    /\ failure' = [what |-> what, path |-> path, name |-> name]

\* lines 186-188: diff = filecmp.dircmp(dir1, dir2), then the first call
AssertDirsEqual ==
    /\ scenario = "cmp"
    /\ result = "idle"
    /\ result' = "running"
    /\ stack' = <<Frame(<<>>)>>
    /\ UNCHANGED <<notCmp, opts, consts, left, right, failure, trace, vectors>>

\* lines 191-194 without line 192
StructuralFailure_noright(path) ==
    IF left_only(path) # <<>> THEN "left_only"
    ELSE IF diff_files(path) # <<>> THEN "diff_files"
    ELSE IF funny_files(path) # <<>> THEN "funny_files"
    ELSE "none"

\* lines 191-194: the four assertions on the structural diff, in this order
StructuralFailure(path) ==
    IF left_only(path) # <<>> THEN "left_only"
    ELSE IF right_only(path) # <<>> THEN "right_only"
    ELSE IF diff_files(path) # <<>> THEN "diff_files"
    ELSE IF funny_files(path) # <<>> THEN "funny_files"
    ELSE "none"

\* lines 191-194 for the directory pair of the innermost call
StructuralAsserts ==
    /\ result = "running"
    /\ Top.phase = "asserts"
    /\ trace' = Append(trace, [ev |-> "visit", path |-> Top.path, name |-> 0])
    /\ IF StructuralFailure(Top.path) # "none"
       THEN /\ Fail(StructuralFailure(Top.path), Top.path, 0)
            /\ UNCHANGED stack
       ELSE /\ stack' = SetTop([Top EXCEPT !.phase = "entries"])
            /\ UNCHANGED <<result, failure>>
    /\ UNCHANGED <<notCmp, opts, consts, left, right, vectors>>

\* line 234 with d1 compared with itself
VectorsEqual_always(v) == v.d1 = v.d1

\* line 234: self.assert_equal(d1, d2)
VectorsEqual(v) == v.d1 = v.d2

\* lines 195-234: one iteration of the loop over diff.common; line 220 calls
\* the memoized probe, whose OSError (lines 119 and 121) nothing catches
CompareEntry ==
    /\ result = "running"
    /\ Top.phase = "entries"
    /\ Top.i <= Len(common(Top.path))
    /\ \E made \in UtimeCalls :
          LET filename == common(Top.path)[Top.i]
              utime == made[Len(made)].outcome
              v == EntryVectors(Top.path, filename, utime)
          IN  /\ trace' = Append(trace, [ev |-> "stat", path |-> Top.path, name |-> filename])
              /\ Memoized(made)
              /\ IF utime = "OSError"
                 THEN /\ result' = "OSError"
                      /\ failure' = [what |-> "probe", path |-> Top.path, name |-> filename]
                      /\ UNCHANGED <<stack, vectors>>
                 ELSE /\ vectors' = v
                      /\ IF VectorsEqual(v)
                         THEN /\ stack' = SetTop([Top EXCEPT !.i = @ + 1])
                              /\ UNCHANGED <<result, failure>>
                         ELSE /\ Fail("attributes", Top.path, filename)
                              /\ UNCHANGED stack
    /\ UNCHANGED <<scenario, mountVars, fnVars, envVars, platform, opts, consts, left, right>>

\* line 195 exhausted: on to the loop of line 235
EntriesDone ==
    /\ result = "running"
    /\ Top.phase = "entries"
    /\ Top.i > Len(common(Top.path))
    /\ stack' = SetTop([Top EXCEPT !.phase = "subdirs", !.i = 1])
    /\ UNCHANGED <<notCmp, opts, consts, left, right, result, failure, trace, vectors>>

\* lines 235-238: the recursive call for the next common subdirectory
Descend ==
    /\ result = "running"
    /\ Top.phase = "subdirs"
    /\ Top.i <= Len(subdirs(Top.path))
    /\ stack' = Append(SetTop([Top EXCEPT !.i = @ + 1]),
                       Frame(Append(Top.path, subdirs(Top.path)[Top.i])))
    /\ UNCHANGED <<notCmp, opts, consts, left, right, result, failure, trace, vectors>>

\* line 235 exhausted: the call returns; assert_dirs_equal returns with the
\* outermost one
Return ==
    /\ result = "running"
    /\ Top.phase = "subdirs"
    /\ Top.i > Len(subdirs(Top.path))
    /\ stack' = SubSeq(stack, 1, Len(stack) - 1)
    /\ result' = IF Len(stack) = 1 THEN "passed" ELSE result
    /\ UNCHANGED <<notCmp, opts, consts, left, right, failure, trace, vectors>>

NextCmp ==
    \/ AssertDirsEqual
    \/ StructuralAsserts
    \/ CompareEntry
    \/ EntriesDone
    \/ Descend
    \/ Return

(***************************************************************************)
(* The inputs of the comparator: dir1 is one of a family of small trees,   *)
(* dir2 a copy of it with up to MaxDiffs entries changed, on the same or   *)
(* on another device                                                       *)
(***************************************************************************)

\* entries in which dir2 differs from dir1
MaxDiffs == 2

PathsOfModel == {<<1>>, <<1, 1>>, <<2>>, <<3>>}

LeftFiles(kind, child, second) ==
    LET dom == {<<1>>} \cup (IF child THEN {<<1, 1>>} ELSE {})
                       \cup (IF second THEN {<<2>>} ELSE {})
    IN  [p \in dom |-> IF p = <<1>> THEN EntryOfKind(kind) ELSE EntryOfKind("reg")]

LeftTrees ==
    {[dev |-> 1, files |-> LeftFiles(k, c, b)] :
        k \in Kinds, c \in BOOLEAN, b \in BOOLEAN}
       \ {[dev |-> 1, files |-> LeftFiles(k, TRUE, b)] :
             k \in Kinds \ {"dir", "lnk_dir"}, b \in BOOLEAN}

MtimeDiffs == {"mtime+1ns", "mtime+6us", "mtime+1s"}
AttrDiffs == {"uid", "gid", "rdev", "nlink", "flags", "xattr", "selinux", "content", "kind"}
TreeDiffs == {"removed", "added", "grown", "unreadable"}

\* the entry e of dir1 as dir2 holds it
Changed(e, how) ==
    CASE how = "uid" -> [e EXCEPT !.st_uid = @ + 1]
      [] how = "gid" -> [e EXCEPT !.st_gid = @ + 1]
      [] how = "rdev" -> [e EXCEPT !.st_rdev = @ + 1]
      [] how = "nlink" -> [e EXCEPT !.st_nlink = @ + 1]
      [] how = "flags" -> [e EXCEPT !.flags = 1]
      [] how = "xattr" -> [e EXCEPT !.xattrs = {<<"user.comment", 2>>}]
      [] how = "selinux" -> [e EXCEPT !.xattrs = @ \cup {<<SELINUX_KEY, 7>>}]
      [] how = "content" -> [e EXCEPT !.content = 2]
      [] how = "grown" -> [e EXCEPT !.content = 2, !.size = 2]
      [] how = "unreadable" ->
            [e EXCEPT !.content = 2, !.readable = FALSE, !.st_mtime_ns = @ + BaseMtime]
      [] how = "kind" ->
            IF S_IFMT(e.st_mode) = S_IFREG THEN EntryOfKind("dir") ELSE EntryOfKind("reg")
      [] how = "mtime+1ns" -> [e EXCEPT !.st_mtime_ns = @ + 1]
      [] how = "mtime+6us" -> [e EXCEPT !.st_mtime_ns = @ + 6000]
      [] how = "mtime+1s" -> [e EXCEPT !.st_mtime_ns = @ + BaseMtime]
      [] OTHER -> e

\* the changes that can be made to the tree `files`, one per path
DiffsOf(files) ==
    {[path |-> p, how |-> h] : p \in DOMAIN files,
                               h \in MtimeDiffs \cup AttrDiffs \cup (TreeDiffs \ {"added"})}
       \cup {[path |-> p, how |-> "added"] :
                p \in {q \in PathsOfModel \ DOMAIN files :
                          Len(q) = 1 \/ (<<q[1]>> \in DOMAIN files /\ IsDir(files[<<q[1]>>]))}}

RECURSIVE DiffSetsUpTo(_, _)
DiffSetsUpTo(files, n) ==
    IF n = 0 THEN {{}}
    ELSE LET less == DiffSetsUpTo(files, n - 1)
         IN  less \cup UNION {{ds \cup {d} : d \in {x \in DiffsOf(files) :
                                                      \A y \in ds : y.path # x.path}} :
                                 ds \in less}

DiffSets(files) == DiffSetsUpTo(files, MaxDiffs)

\* dir2: dir1 with the changes ds; what lies below a path that is no
\* directory in dir2 is gone
RightFiles(files, ds) ==
    LET gone == {d.path : d \in {x \in ds : x.how = "removed"}}
        new == {d.path : d \in {x \in ds : x.how = "added"}}
        dom == (DOMAIN files \ gone) \cup new
        how(p) == IF \E d \in ds : d.path = p
                  THEN (CHOOSE d \in ds : d.path = p).how ELSE "same"
        raw == [p \in dom |-> IF p \in DOMAIN files THEN Changed(files[p], how(p))
                              ELSE EntryOfKind("reg")]
        valid == {p \in dom : Len(p) = 1 \/ (<<p[1]>> \in dom /\ IsDir(raw[<<p[1]>>]))}
    IN  [p \in valid |-> raw[p]]

AllOpts == [ignore_flags : BOOLEAN, ignore_xattrs : BOOLEAN, ignore_ns : BOOLEAN]
\* lines 29 and 44-52
AllConsts == [have_fuse_mtime_ns : BOOLEAN, st_mtime_ns_round : {0, 0 - 3, 0 - 4, 0 - 9}]
LinuxConsts == [have_fuse_mtime_ns |-> TRUE, st_mtime_ns_round |-> 0]

\* is_utime_fully_supported() has not been called in this process, or it
\* has, and returned
ProbeStates == {"unset", "True", "False"}

\* the memo of the probes q after is_utime_fully_supported() was called (and
\* with it are_symlinks_supported()) and returned u
ProbedBefore(u) ==
    [q \in Probes |-> IF u = "unset" THEN "unset"
                      ELSE IF q = "is_utime_fully_supported" THEN u
                      ELSE IF q = Sym THEN "True"
                      ELSE "unset"]

Env(o, c, u, d) == [opts |-> o, consts |-> c, utime |-> u, dev |-> d]

\* the environments a pair of trees is compared in: exact copies in every
\* environment, in a process that has or has not called the probe before;
\* trees that differ in one modification time with every option and
\* precision; trees that differ in one other way with the precision
\* constants of Linux; trees that differ in several ways with the default
\* options as well
EnvsOf(files, ds) ==
    IF ds = {}
    THEN {Env(o, c, u, d) : o \in AllOpts, c \in AllConsts, u \in ProbeStates, d \in {1, 2}}
    ELSE IF \E d \in ds : d.how \in MtimeDiffs
    THEN IF DOMAIN files = {<<1>>}
         THEN {Env(o, c, u, d) : o \in AllOpts, c \in AllConsts, u \in {"True", "False"},
                                 d \in {1, 2}}
         ELSE {}
    ELSE IF Cardinality(ds) = 1
    THEN {Env(o, LinuxConsts, u, d) : o \in AllOpts, u \in {"True", "False"}, d \in {1, 2}}
    ELSE {Env([ignore_flags |-> FALSE, ignore_xattrs |-> FALSE, ignore_ns |-> FALSE],
              LinuxConsts, "True", d) : d \in {1, 2}}

InitCmp ==
    /\ scenario = "cmp"
    /\ MountIdle
    /\ platform = [has_link |-> TRUE, has_birthtime |-> TRUE]
    /\ last = <<>>
    /\ left \in LeftTrees
    /\ \E ds \in DiffSets(left.files) :
          \E env \in EnvsOf(left.files, ds) :
             /\ opts = env.opts
             /\ consts = env.consts
             /\ cache = ProbedBefore(env.utime)
             /\ first = [q \in Probes |-> IF ProbedBefore(env.utime)[q] = "unset"
                                           THEN "none" ELSE ProbedBefore(env.utime)[q]]
             /\ ncalls = [q \in Probes |-> IF ProbedBefore(env.utime)[q] = "unset"
                                            THEN 0 ELSE 1]
             /\ right = [dev |-> env.dev, files |-> RightFiles(left.files, ds)]
    /\ stack = <<>>
    /\ result = "idle"
    /\ failure = NoFailure
    /\ trace = <<>>
    /\ vectors = NoVectors
    /\ AuxIdle

SpecCmp == InitCmp /\ [][NextCmp]_vars

(***************************************************************************)
(* The claims about the directory comparator                               *)
(***************************************************************************)

StructuralKinds == {"left_only", "right_only", "diff_files", "funny_files"}

\* the structural diff of the directory pair at `path` has a non-empty list
StructurallyDifferent(path) ==
    \/ left_only(path) # <<>>
    \/ right_only(path) # <<>>
    \/ diff_files(path) # <<>>
    \/ funny_files(path) # <<>>

Events(ev) == {i \in 1..Len(trace) : trace[i].ev = ev}

ProperPrefix(p, q) == Len(p) < Len(q) /\ SubSeq(q, 1, Len(p)) = p

\* C8: once a directory pair whose structural diff has a non-empty
\* left-only, right-only, differing-files or funny-files list is visited, the
\* comparison has failed at that pair with a structural failure, no entry of
\* the pair was stat'ed by the comparator, no attribute vector was built for
\* one, and no directory below the pair was visited.
C8_StructuralFailureFirst ==
    \A i \in Events("visit") :
       StructurallyDifferent(trace[i].path) =>
          /\ result = "AssertionError"
          /\ failure.path = trace[i].path
          /\ failure.what \in StructuralKinds
          /\ \A j \in Events("stat") : trace[j].path # trace[i].path
          /\ \A j \in Events("visit") : ~ProperPrefix(trace[i].path, trace[j].path)
          /\ vectors = NoVectors \/ vectors.path # trace[i].path

\* left {1, 2} against right {1, 2, 3}: failed on right-only 3, nothing
\* stat'ed
C8_Witness ==
    /\ result = "AssertionError"
    /\ failure = [what |-> "right_only", path |-> <<>>, name |-> 0]
    /\ common(<<>>) = <<1, 2>>
    /\ right_only(<<>>) = <<3>>
    /\ Events("stat") = {}
    /\ vectors = NoVectors

\* C9: the comparison of a tree with a copy that has the same entries,
\* contents and per-entry metadata, once it has ended, has succeeded.
C9_CopyComparesEqual ==
    (right.files = left.files /\ result \notin {"idle", "running"}) => result = "passed"

IsDevice(e) == S_ISCHR(e.st_mode) \/ S_ISBLK(e.st_mode)

\* the vector of lines 206-233 for the entry e of `tree` without lines
\* 214-217
Unnulled(tree, e, isfuse, as) ==
    LET st == Stat(tree, Append(vectors.path, vectors.name))
    IN  WithXattrs(WithMtime(WithFlags(NamedAttrs(vectors.name, st, as), e), st, isfuse,
                             cache["is_utime_fully_supported"]), e)

\* d is the vector `raw` with None for its element 4 (st_rdev) exactly when e
\* is neither a character nor a block device, and is `raw` elsewhere
NulledRight(d, raw, e) ==
    /\ Len(d) = Len(raw)
    /\ \A i \in 1..Len(d) : d[i] = IF i = 5 /\ ~IsDevice(e) THEN None ELSE raw[i]

\* C10: in the two attribute vectors built for a common entry, the st_rdev
\* element and no other is None, on a side exactly when that side's entry is
\* neither a character nor a block device; and two entries that are both
\* no devices and differ only in st_rdev have equal vectors.
C10_RdevNormalized ==
    vectors # NoVectors =>
       LET p == Append(vectors.path, vectors.name)
           e1 == left.files[p]
           e2 == right.files[p]
           isfuse == left.dev # right.dev
           as == attrs(Stat(left, p), Stat(right, p), e1)
       IN  /\ NulledRight(vectors.d1, Unnulled(left, e1, isfuse, as), e1)
           /\ NulledRight(vectors.d2, Unnulled(right, e2, isfuse, as), e2)
           /\ (~IsDevice(e1) /\ ~IsDevice(e2) /\ [e1 EXCEPT !.st_rdev = e2.st_rdev] = e2)
                 => vectors.d1 = vectors.d2

\* two regular files that differ in st_rdev only were compared and the
\* comparison passed
C10_Witness ==
    /\ vectors # NoVectors
    /\ result = "passed"
    /\ LET p == Append(vectors.path, vectors.name)
       IN  /\ S_IFMT(left.files[p].st_mode) = S_IFREG
           /\ left.files[p].st_rdev # right.files[p].st_rdev
           /\ [left.files[p] EXCEPT !.st_rdev = right.files[p].st_rdev] = right.files[p]
           /\ vectors.d1[5] = None
           /\ vectors.d1 = vectors.d2

(***************************************************************************)
(* no_selinux called on its own, with a dict or a list                     *)
(***************************************************************************)

\* entries of a collection
MaxXattrs == 3

XattrKeys == {SELINUX_KEY, "user.comment", "user.mime_type"}
XattrValues == {1, 2}

SeqsUpTo(S, n) == UNION {[1..k -> S] : k \in 0..n}

\* lists of xattr names, as listxattr returns them
XattrLists == {List(l) : l \in SeqsUpTo(XattrKeys, MaxXattrs)}

\* dicts from xattr names to values, as get_all returns them
XattrDicts ==
    {Dict(l) : l \in {m \in SeqsUpTo(XattrKeys \X XattrValues, MaxXattrs) :
                         \A i, j \in 1..Len(m) : m[i][1] = m[j][1] => i = j}}

InitSelinux ==
    /\ scenario = "no_selinux"
    /\ \E x \in XattrLists \cup XattrDicts :
          call = [fn |-> "none", x |-> x, arg |-> x, ret |-> NoCollection]
    /\ environ = [n \in EnvNames |-> Absent]
    /\ scopes = <<>>
    /\ exited = NoExit
    /\ MountIdle
    /\ ProbesIdle
    /\ CmpIdle

\* y = no_selinux(x); the comprehensions of lines 162 and 164 build a new
\* object and leave x as it is
CallNoSelinux ==
    /\ scenario = "no_selinux"
    /\ call.fn = "none"
    /\ call' = [call EXCEPT !.fn = "no_selinux", !.ret = no_selinux(call.arg)]
    /\ UNCHANGED notFn

\* no_selinux(y)
CallNoSelinuxAgain ==
    /\ scenario = "no_selinux"
    /\ call.fn = "no_selinux"
    /\ call' = [call EXCEPT !.fn = "no_selinux(no_selinux)", !.arg = call.ret,
                            !.ret = no_selinux(call.ret)]
    /\ UNCHANGED notFn

NextSelinux == CallNoSelinux \/ CallNoSelinuxAgain

SpecSelinux == InitSelinux /\ [][NextSelinux]_vars

\* the key of an entry of a collection of the given type
KeyIn(type, entry) == IF type = "dict" THEN entry[1] ELSE entry

\* the entries of s other than those of the key security.selinux, in order
RECURSIVE Kept(_, _)
Kept(type, s) ==
    IF s = <<>> THEN <<>>
    ELSE IF KeyIn(type, Head(s)) = "security.selinux" THEN Kept(type, Tail(s))
    ELSE <<Head(s)>> \o Kept(type, Tail(s))

\* C12: no_selinux(x) for a dict or list x has the type of x, holds exactly
\* the entries of x other than the key security.selinux in their order,
\* equals the result for x without that key, leaves x as it was, and
\* applied to its own result returns it unchanged.
C12_NoSelinuxFilters ==
    /\ call.fn = "no_selinux" =>
          /\ call.ret.type = call.x.type
          /\ call.ret.items = Kept(call.x.type, call.x.items)
          /\ call.ret = no_selinux([call.x EXCEPT !.items = Kept(call.x.type, @)])
          /\ call.arg = call.x
    /\ call.fn = "no_selinux(no_selinux)" =>
          /\ call.ret = call.arg
          /\ call.ret.type = call.x.type
          /\ call.ret.items = Kept(call.x.type, call.x.items)

\* a list with the key between two others was filtered, twice
C12_Witness ==
    /\ call.fn = "no_selinux(no_selinux)"
    /\ call.x = List(<<"user.mime_type", "security.selinux", "user.comment">>)
    /\ call.ret = List(<<"user.mime_type", "user.comment">>)

(***************************************************************************)
(* environment_variable.  Every with statement makes its own object.  A    *)
(* value None (of a keyword argument, or returned by os.environ.get) is    *)
(* written Absent.                                                         *)
(***************************************************************************)

\* with statements nested in one another
MaxDepth == 2

EnvValues == {"x", "y"}

Environments == [EnvNames -> EnvValues \cup {Absent}]

\* the keyword arguments **values
ScopeValues == UNION {[D -> EnvValues \cup {Absent}] : D \in SUBSET EnvNames}

InitEnv ==
    /\ scenario = "env"
    /\ environ \in Environments
    /\ scopes = <<>>
    /\ exited = NoExit
    /\ call = NoCall
    /\ MountIdle
    /\ ProbesIdle
    /\ CmpIdle

\* line 361 with None for the value found
Saved_none(k) == Absent

\* line 361: os.environ.get(k)
Saved(k) == environ[k]

\* lines 362-365 and 369-372: os.environ.pop(k, None) or os.environ[k] = v,
\* for every k of d
Assigned(d) == [n \in EnvNames |-> IF n \in DOMAIN d THEN d[n] ELSE environ[n]]

\* lines 355-365: environment_variable(**values).__enter__(); the run
\* enters up to MaxDepth scopes, one in the other, and leaves them
Enter ==
    /\ scenario = "env"
    /\ Len(scopes) < MaxDepth
    /\ exited = NoExit
    /\ \E values \in ScopeValues :
          /\ environ' = Assigned(values)
          /\ scopes' = Append(scopes, [values |-> values,
                                       old_values |-> [k \in DOMAIN values |-> Saved(k)],
                                       before |-> environ,
                                       inside |-> Assigned(values)])
    /\ UNCHANGED <<notEnv, exited>>

\* the body of the innermost with statement sets or deletes a variable
BodyAssigns ==
    /\ scenario = "env"
    /\ scopes # <<>>
    /\ exited = NoExit
    /\ \E n \in EnvNames, v \in EnvValues \cup {Absent} :
          environ' = [environ EXCEPT ![n] = v]
    /\ UNCHANGED <<notEnv, scopes, exited>>

\* lines 367-372: __exit__ of the innermost object, after its body ended or
\* raised; it returns None, so an exception goes on
Exit ==
    /\ scenario = "env"
    /\ scopes # <<>>
    /\ LET top == scopes[Len(scopes)] IN
       \E raised \in BOOLEAN :
          /\ environ' = Assigned(top.old_values)
          /\ exited' = [raised |-> raised, names |-> DOMAIN top.values,
                        before |-> top.before, atExit |-> environ,
                        after |-> Assigned(top.old_values)]
          /\ scopes' = SubSeq(scopes, 1, Len(scopes) - 1)
    /\ UNCHANGED notEnv

NextEnv == Enter \/ BodyAssigns \/ Exit

SpecEnv == InitEnv /\ [][NextEnv]_vars

\* C20: __enter__ gives every named variable the requested value (removes
\* it for None) and leaves the others; __exit__, whether or not the body
\* raised, gives every named variable the value it had before __enter__
\* (removes it if it was absent) and leaves the others; also for scopes
\* nested over the same variable.
C20_EnvironmentRestored ==
    /\ \A i \in 1..Len(scopes) :
          \A n \in EnvNames :
             scopes[i].inside[n] = IF n \in DOMAIN scopes[i].values
                                   THEN scopes[i].values[n]
                                   ELSE scopes[i].before[n]
    /\ exited # NoExit =>
          \A n \in EnvNames :
             exited.after[n] = IF n \in exited.names THEN exited.before[n]
                               ELSE exited.atExit[n]

\* the inner of two scopes over A, which had removed A, was left by an
\* exception: A has the value the outer scope gave it
C20_Witness ==
    /\ exited # NoExit
    /\ exited.raised
    /\ Len(scopes) = 1
    /\ "A" \in DOMAIN scopes[1].values
    /\ scopes[1].values["A"] = "x"
    /\ scopes[1].before["A"] = "y"
    /\ exited.names = {"A"}
    /\ exited.atExit["A"] = Absent
    /\ exited.after["A"] = "x"
    /\ environ["A"] = "x"

\* the entry of dir1 and of dir2 the latest vectors were built for
Compared1 == left.files[Append(vectors.path, vectors.name)]
Compared2 == right.files[Append(vectors.path, vectors.name)]

\* the latest vectors hold a modification time
HasMtime == vectors # NoVectors /\ cache["is_utime_fully_supported"] = "True"

\* the modification time in the vector d: the last element, or the one
\* before the xattrs
MtimeElement(d) == d[IF opts.ignore_xattrs THEN Len(d) ELSE Len(d) - 1]

\* the comparator rounded at the process-wide exponent (line 229)
ProcessWideRounding ==
    /\ HasMtime
    /\ ~opts.ignore_ns
    /\ ~(left.dev # right.dev /\ ~consts.have_fuse_mtime_ns)

Abs(n) == IF n < 0 THEN 0 - n ELSE n

\* C11: when the comparator rounds two modification times t1, t2 at the
\* process-wide exponent e, with g = 10^(-e): |t1 - t2| <= g gives equal
\* rounded values, and |t1 - t2| > 2g gives different ones.
C11_RoundingSymmetry ==
    ProcessWideRounding =>
       LET g == Pow10(0 - consts.st_mtime_ns_round)
           apart == Abs(Compared1.st_mtime_ns - Compared2.st_mtime_ns)
           r1 == MtimeElement(vectors.d1)
           r2 == MtimeElement(vectors.d2)
       IN  /\ apart <= g => r1 = r2
           /\ apart > 2 * g => r1 # r2

\* elements of a vector of the latest comparison that are there whatever
\* the link-count rule decides: name, mode, uid, gid, rdev, then flags,
\* mtime and xattrs as far as they are compared
OtherElements ==
    5 + (IF opts.ignore_flags THEN 0 ELSE 1)
      + (IF cache["is_utime_fully_supported"] = "True" THEN 1 ELSE 0)
      + (IF opts.ignore_xattrs THEN 0 ELSE 1)

\* the vector d holds the link count n, after st_rdev
HoldsNlink(d, n) == Len(d) = OtherElements + 1 /\ d[6] = n

\* C14: the vectors of a common entry hold the link count unless the entry
\* itself is a directory and the two sides are on different devices.
C14_LinkCountRule ==
    vectors # NoVectors =>
       IF S_IFMT(Compared1.st_mode) = S_IFDIR /\ left.dev # right.dev
       THEN Len(vectors.d1) = OtherElements /\ Len(vectors.d2) = OtherElements
       ELSE /\ HoldsNlink(vectors.d1, Compared1.st_nlink)
            /\ HoldsNlink(vectors.d2, Compared2.st_nlink)

\* the modification time t under the policy that applies
MtimePolicy(t) ==
    IF opts.ignore_ns THEN t \div Pow10(9)
    ELSE IF left.dev # right.dev /\ ~consts.have_fuse_mtime_ns THEN round(t, 0 - 4)
    ELSE round(t, consts.st_mtime_ns_round)

\* the vector d of the entry e is: the elements up to the flags,
\* then the modification time under the policy if is_utime_fully_supported()
\* is True, then the xattrs if they are compared
MtimeUnderPolicy(d, e) ==
    LET p == Append(vectors.path, vectors.name)
        as == attrs(Stat(left, p), Stat(right, p), Compared1)
        upto == 2 + Len(as) + (IF opts.ignore_flags THEN 0 ELSE 1)
        mt == IF cache["is_utime_fully_supported"] = "True"
              THEN <<MtimePolicy(e.st_mtime_ns)>> ELSE <<>>
        xa == IF opts.ignore_xattrs THEN <<>> ELSE <<d[Len(d)]>>
    IN  /\ Len(d) = upto + Len(mt) + Len(xa)
        /\ \A i \in 1..Len(mt) : d[upto + i] = mt[i]

\* C16: the vectors of a common entry hold a modification time iff
\* is_utime_fully_supported() is True, and then on both sides the time under
\* one policy: truncated to whole seconds if ignore_ns; else rounded to
\* 10^4 ns if the sides are on different devices and have_fuse_mtime_ns is
\* False; else rounded at st_mtime_ns_round.
C16_MtimePolicy ==
    vectors # NoVectors =>
       /\ MtimeUnderPolicy(vectors.d1, Compared1)
       /\ MtimeUnderPolicy(vectors.d2, Compared2)

\* ignore_ns on different devices without ns support of the mount layer:
\* whole seconds were compared, and they differ from the 10^4 ns rounding
C16_Witness ==
    /\ HasMtime
    /\ opts.ignore_ns
    /\ left.dev # right.dev
    /\ ~consts.have_fuse_mtime_ns
    /\ MtimeElement(vectors.d2) = Compared2.st_mtime_ns \div Pow10(9)
    /\ MtimeElement(vectors.d2) # round(Compared2.st_mtime_ns, 0 - 4)
    /\ Compared1.st_mtime_ns # Compared2.st_mtime_ns
    /\ result = "passed"

Visit(path) == [ev |-> "visit", path |-> path, name |-> 0]
StatOf(path, name) == [ev |-> "stat", path |-> path, name |-> name]

RECURSIVE Flat(_)
Flat(ss) == IF ss = <<>> THEN <<>> ELSE Head(ss) \o Flat(Tail(ss))

\* the order of the code: the directory pair, all its common entries, then
\* its common subdirectories one after the other
RECURSIVE LevelOrder(_)
LevelOrder(path) ==
    <<Visit(path)>>
       \o [i \in 1..Len(common(path)) |-> StatOf(path, common(path)[i])]
       \o Flat([i \in 1..Len(subdirs(path)) |-> LevelOrder(Append(path, subdirs(path)[i]))])

\* depth-first order: the directory pair, then each common entry followed,
\* when it is a common subdirectory, by all that lies below it
RECURSIVE DepthFirst(_)
DepthFirst(path) ==
    <<Visit(path)>>
       \o Flat([i \in 1..Len(common(path)) |->
                  <<StatOf(path, common(path)[i])>>
                     \o (IF \E j \in 1..Len(subdirs(path)) :
                               subdirs(path)[j] = common(path)[i]
                         THEN DepthFirst(Append(path, common(path)[i]))
                         ELSE <<>>)])

\* the two sides differ at the event e: in the structure of the directory
\* pair, or in the attribute vectors of the entry
Mismatch(e) ==
    IF e.ev = "visit" THEN StructurallyDifferent(e.path)
    ELSE LET v == EntryVectors(e.path, e.name, cache["is_utime_fully_supported"])
         IN  v.d1 # v.d2

Mismatches(order) == {i \in 1..Len(order) : Mismatch(order[i])}

\* the first mismatch in `order`
FirstMismatch(order) ==
    order[CHOOSE i \in Mismatches(order) : \A j \in Mismatches(order) : i <= j]

\* the event of the failure reported
Reported ==
    IF failure.what \in StructuralKinds THEN Visit(failure.path)
    ELSE StatOf(failure.path, failure.name)

\* C15 as stated: the failure reported is the first mismatch in depth-first
\* order, entries in listing order.
C15_DepthFirstFailure ==
    result = "AssertionError" =>
       /\ Mismatches(DepthFirst(<<>>)) # {}
       /\ Reported = FirstMismatch(DepthFirst(<<>>))

\* C15 as amended: the comparison walks each directory pair in the order
\* structure, attribute vectors of all its common entries in listing order,
\* common subdirectories in listing order; the failure reported is the
\* first mismatch in that order, it is the only one, nothing is compared
\* after it, and a comparison that passes has walked the whole tree.
C15_LevelOrderFailure ==
    /\ IsPrefix(trace, LevelOrder(<<>>))
    /\ \A i \in 1..Len(trace) :
          Mismatch(trace[i]) => i = Len(trace) /\ result = "AssertionError"
    /\ result = "AssertionError" =>
          /\ trace # <<>>
          /\ Reported = trace[Len(trace)]
          /\ Reported = FirstMismatch(LevelOrder(<<>>))
    /\ result = "passed" => trace = LevelOrder(<<>>)

\* an entry of the first subdirectory and a later entry of the parent both
\* differ: the later entry of the parent was reported
C15_Witness ==
    /\ result = "AssertionError"
    /\ failure = [what |-> "attributes", path |-> <<>>, name |-> 2]
    /\ Mismatches(DepthFirst(<<>>)) # {}
    /\ FirstMismatch(DepthFirst(<<>>)) = StatOf(<<1>>, 1)

====
